---- MODULE Spec2Model ----
(***************************************************************************)
(* Model of the tree data model of Sixtoto (src/Sixtoto/FoldBuild.py):     *)
(* the ordered, depth-tagged entry list of TreeCreator and its render,     *)
(* parse and path-resolution algorithms.                                   *)
(*                                                                         *)
(* Text is a sequence of characters; a character is a one-element string.  *)
(* The box-drawing glyphs and the two icons are not ASCII, so each is      *)
(* named by a definition and stands for a single character.                *)
(***************************************************************************)
EXTENDS Integers, Sequences, FiniteSets, TLC

\* ---------------------------------------------------------------- characters
VBAR == "VBAR"          \* U+2502, the vertical bar glyph
TEE == "TEE"            \* U+251C, the branch glyph
CORNER == "CORNER"      \* U+2514, the corner glyph
DASH == "DASH"          \* U+2500, the horizontal dash glyph
DIR_ICON == "DIR"       \* U+1F4C1, the folder icon
FILE_ICON == "FILE"     \* U+1F4C4, the file icon
SP == " "
NL == "\n"
TAB == "\t"
DOT == "."
SLASH == "/"

\* The characters str.strip() and str.lstrip() remove.
Whitespace == {SP, NL, TAB}

\* ------------------------------------------------------------ str operations
RECURSIVE LStrip(_)
LStrip(s) ==
  IF s = <<>> THEN s
  ELSE IF Head(s) \in Whitespace THEN LStrip(Tail(s)) ELSE s

RECURSIVE RStripSet(_, _)
RStripSet(s, cs) ==
  IF s = <<>> THEN s
  ELSE IF s[Len(s)] \in cs THEN RStripSet(SubSeq(s, 1, Len(s) - 1), cs) ELSE s

Strip(s) == RStripSet(LStrip(s), Whitespace)

StartsWith(s, c) == s # <<>> /\ s[1] = c

EndsWith(s, c) == s # <<>> /\ s[Len(s)] = c

Contains(s, c) == \E i \in 1..Len(s) : s[i] = c

Count(s, c) == Cardinality({i \in 1..Len(s) : s[i] = c})

\* Whether pat occurs in s as a substring.
HasSub(s, pat) ==
  \E i \in 1..(Len(s) - Len(pat) + 1) : SubSeq(s, i, i + Len(pat) - 1) = pat

\* str.replace(pat, ''): leftmost, non-overlapping occurrences are removed.
RECURSIVE Remove(_, _)
Remove(s, pat) ==
  IF Len(s) < Len(pat) THEN s
  ELSE IF SubSeq(s, 1, Len(pat)) = pat
       THEN Remove(SubSeq(s, Len(pat) + 1, Len(s)), pat)
       ELSE <<Head(s)>> \o Remove(Tail(s), pat)

\* str.split(sep) for a one-character separator; "".split(sep) is [''].
RECURSIVE Split(_, _)
Split(s, sep) ==
  IF ~Contains(s, sep) THEN <<s>>
  ELSE LET i == CHOOSE k \in 1..Len(s) :
                  s[k] = sep /\ \A j \in 1..(k - 1) : s[j] # sep
       IN <<SubSeq(s, 1, i - 1)>> \o Split(SubSeq(s, i + 1, Len(s)), sep)

\* sep.join(parts)
RECURSIVE Join(_, _)
Join(parts, sep) ==
  IF parts = <<>> THEN <<>>
  ELSE IF Len(parts) = 1 THEN parts[1]
  ELSE parts[1] \o <<sep>> \o Join(Tail(parts), sep)

\* os.path.basename (posixpath): what follows the last '/'.
Basename(p) ==
  IF ~Contains(p, SLASH) THEN p
  ELSE LET i == CHOOSE k \in 1..Len(p) :
                  p[k] = SLASH /\ \A j \in (k + 1)..Len(p) : p[j] # SLASH
       IN SubSeq(p, i + 1, Len(p))

\* One step of os.path.join (posixpath): an absolute component discards what
\* precedes it; a separator is inserted unless the path is empty or ends in one.
PathJoin2(a, b) ==
  IF StartsWith(b, SLASH) THEN b
  ELSE IF a = <<>> \/ EndsWith(a, SLASH) THEN a \o b
  ELSE a \o <<SLASH>> \o b

\* os.path.join(*parts)
RECURSIVE PathJoinFrom(_, _)
PathJoinFrom(path, rest) ==
  IF rest = <<>> THEN path
  ELSE PathJoinFrom(PathJoin2(path, Head(rest)), Tail(rest))

PathJoin(parts) == PathJoinFrom(Head(parts), Tail(parts))

\* ------------------------------------------------------------------ entries
\* An entry of TreeCreator.structure: the tuple (name, depth, is_file).
Entry(name, depth, is_file) ==
  [name |-> name, depth |-> depth, is_file |-> is_file]

\* The is_file argument of add_item: None, True or False.
IsFileArgs == {"None", "True", "False"}

\* A variant of the auto-detection that tests the whole name for a leading dot.
AddAutoDetect_ByName(name) ==
  LET basename == Basename(name)
  IN /\ Contains(basename, DOT)
     /\ ~StartsWith(name, DOT)
     /\ ~EndsWith(name, SLASH)

\* add_item's auto-detection of file against folder.
AddAutoDetect(name) ==
  LET basename == Basename(name)
  IN /\ Contains(basename, DOT)
     /\ ~StartsWith(basename, DOT)
     /\ ~EndsWith(name, SLASH)

\* A variant of add_item that does not trim the name.
add_item_NoTrim(S, raw, depth, is_file) ==
  IF raw = <<>>
  THEN [ret |-> FALSE, structure |-> S]
  ELSE [ret |-> TRUE,
        structure |-> Append(S, Entry(raw, depth,
                        IF is_file = "None" THEN AddAutoDetect(raw)
                        ELSE is_file = "True"))]

\* add_item: the returned flag and the structure it leaves.
add_item(S, raw, depth, is_file) ==
  LET name == Strip(raw)
  IN IF name = <<>>
     THEN [ret |-> FALSE, structure |-> S]
     ELSE [ret |-> TRUE,
           structure |-> Append(S, Entry(name, depth,
                           IF is_file = "None" THEN AddAutoDetect(name)
                           ELSE is_file = "True"))]

\* list.pop(index) for an index in range: the list without that element.
Pop(S, index) ==
  SubSeq(S, 1, index) \o SubSeq(S, index + 2, Len(S))

\* A variant of remove_item whose range test lets a negative index wrap round,
\* as list.pop does.
remove_item_Wrap(S, index) ==
  IF index < Len(S) /\ -Len(S) <= index
  THEN LET k == IF index < 0 THEN index + Len(S) ELSE index
       IN [none |-> FALSE, ret |-> S[k + 1].name, structure |-> Pop(S, k)]
  ELSE [none |-> TRUE, ret |-> <<>>, structure |-> S]

\* A variant of remove_item that takes the entries right below the removed
\* one with it: the deeper entries that follow it without a break.
remove_item_Cascade(S, index) ==
  IF 0 <= index /\ index < Len(S)
  THEN LET below == {j \in (index + 2)..Len(S) :
                       \A m \in (index + 2)..j : S[m].depth > S[index + 1].depth}
       IN [none |-> FALSE, ret |-> S[index + 1].name,
           structure |-> SubSeq(S, 1, index)
                           \o SubSeq(S, index + 2 + Cardinality(below), Len(S))]
  ELSE [none |-> TRUE, ret |-> <<>>, structure |-> S]

\* remove_item: none says that None was returned; ret is the removed name.
remove_item(S, index) ==
  IF 0 <= index /\ index < Len(S)
  THEN [none |-> FALSE, ret |-> S[index + 1].name, structure |-> Pop(S, index)]
  ELSE [none |-> TRUE, ret |-> <<>>, structure |-> S]

\* ------------------------------------------------------------------- render
\* Indices are the program's, counted from 0: entry i is S[i + 1].
DepthAt(S, i) == S[i + 1].depth

\* The look-ahead loop of is_last_child_at_depth, from position i on.
RECURSIVE LastChildScan(_, _, _)
LastChildScan(S, i, current_depth) ==
  IF i >= Len(S) THEN TRUE
  ELSE IF DepthAt(S, i) <= current_depth - 1 THEN TRUE
  ELSE IF DepthAt(S, i) = current_depth THEN FALSE
  ELSE LastChildScan(S, i + 1, current_depth)

\* A variant of is_last_child_at_depth that looks ahead to the end of the list
\* and does not stop at a shallower entry.
is_last_child_at_depth_NoBreak(S, index, depth) ==
  \A i \in (index + 1)..(Len(S) - 1) : DepthAt(S, i) # DepthAt(S, index)

\* The depth argument is not read: the entry's own depth is.
is_last_child_at_depth(S, index, depth) ==
  LastChildScan(S, index + 1, DepthAt(S, index))

\* The look-ahead loop of has_more_siblings_at_level, from position i on.
RECURSIVE SiblingScan(_, _, _)
SiblingScan(S, i, level) ==
  IF i >= Len(S) THEN FALSE
  ELSE IF DepthAt(S, i) <= level THEN DepthAt(S, i) = level
  ELSE SiblingScan(S, i + 1, level)

\* A variant of has_more_siblings_at_level that looks ahead to the end of the
\* list and does not stop at a shallower entry.
has_more_siblings_at_level_NoBreak(S, index, level) ==
  \E i \in (index + 1)..(Len(S) - 1) : DepthAt(S, i) = level

has_more_siblings_at_level(S, index, level) ==
  SiblingScan(S, index + 1, level)

CornerToken == <<CORNER, DASH, DASH, SP>>
TeeToken == <<TEE, DASH, DASH, SP>>
BarToken == <<VBAR, SP, SP, SP>>
BlankToken == <<SP, SP, SP, SP>>

\* The token get_tree_prefix appends for one level.
PrefixToken(S, index, depth, level) ==
  IF level = depth - 1
  THEN IF is_last_child_at_depth(S, index, depth) THEN CornerToken ELSE TeeToken
  ELSE IF has_more_siblings_at_level(S, index, level + 1)
       THEN BarToken ELSE BlankToken

\* The loop of get_tree_prefix over range(depth), from level on.
RECURSIVE PrefixFrom(_, _, _, _)
PrefixFrom(S, index, depth, level) ==
  IF level >= depth THEN <<>>
  ELSE PrefixToken(S, index, depth, level) \o PrefixFrom(S, index, depth, level + 1)

\* A variant of get_tree_prefix that gives depth-0 entries a connector too.
get_tree_prefix_RootToo(S, index, depth) ==
  IF depth = 0
  THEN IF is_last_child_at_depth(S, index, depth) THEN CornerToken ELSE TeeToken
  ELSE PrefixFrom(S, index, depth, 0)

\* get_tree_prefix: empty at depth 0, one 4-character token per level otherwise.
get_tree_prefix(S, index, depth) ==
  IF depth = 0 THEN <<>> ELSE PrefixFrom(S, index, depth, 0)

Icon(is_file) == IF is_file THEN FILE_ICON ELSE DIR_ICON

\* One line of the copy-paste format: prefix, icon, a space, the name.
ExportLine(S, i) ==
  get_tree_prefix(S, i, DepthAt(S, i)) \o <<Icon(S[i + 1].is_file), SP>> \o S[i + 1].name

\* The lines _export_structure_display prints for the entries, in order.
ExportLines(S) == [k \in 1..Len(S) |-> ExportLine(S, k - 1)]

\* -------------------------------------------------------------------- parse
\* Whether a line holds one of the four glyphs parse_tree_line looks for.
HasTreeChar(line) ==
  \E c \in {TEE, CORNER, VBAR, DASH} : Contains(line, c)

\* A variant of the depth that counts the branch and corner glyphs as a level.
LineDepth_CountBranch(line) ==
  IF HasTreeChar(line)
  THEN Count(line, VBAR) + Count(line, TEE) + Count(line, CORNER)
  ELSE (Len(line) - Len(LStrip(line))) \div 4

\* The depth parse_tree_line computes: the number of vertical bars in a line
\* with glyphs, the leading whitespace divided by 4 otherwise.
LineDepth(line) ==
  IF HasTreeChar(line)
  THEN Count(line, VBAR)
  ELSE (Len(line) - Len(LStrip(line))) \div 4

\* The replace loop of parse_tree_line, in its order, then strip().
LineName(line) ==
  LET r1 == Remove(line, <<TEE, DASH, DASH>>)
      r2 == Remove(r1, <<CORNER, DASH, DASH>>)
      r3 == Remove(r2, <<VBAR>>)
      r4 == Remove(r3, <<DASH>>)
      r5 == Remove(r4, <<TEE>>)
      r6 == Remove(r5, <<CORNER>>)
  IN Strip(r6)

\* parse_tree_line: none says that (None, 0) was returned.
parse_tree_line(line) ==
  IF LineName(line) = <<>>
  THEN [none |-> TRUE, name |-> <<>>, depth |-> 0]
  ELSE [none |-> FALSE, name |-> LineName(line), depth |-> LineDepth(line)]

\* parse_tree_text's auto-detection of file against folder.
ParseAutoDetect(name) ==
  /\ Contains(Basename(name), DOT)
  /\ ~StartsWith(name, DOT)
  /\ ~EndsWith(name, SLASH)

\* parse_tree_text's clean-up of a name: one leading '/', every trailing '/'.
CleanName(name) ==
  LET n1 == IF StartsWith(name, SLASH) THEN Tail(name) ELSE name
  IN RStripSet(n1, {SLASH})

\* A variant of the loop body that appends an entry for every line.
ParseLineEntries_KeepAll(line) ==
  LET r == parse_tree_line(line)
  IN <<Entry(CleanName(r.name), r.depth, ParseAutoDetect(r.name))>>

\* The body of parse_tree_text's loop for one line: the entries it appends.
ParseLineEntries(line) ==
  IF Strip(line) = <<>> \/ parse_tree_line(line).none THEN <<>>
  ELSE LET r == parse_tree_line(line)
       IN <<Entry(CleanName(r.name), r.depth, ParseAutoDetect(r.name))>>

RECURSIVE ParseLines(_)
ParseLines(lines) ==
  IF lines = <<>> THEN <<>>
  ELSE ParseLineEntries(Head(lines)) \o ParseLines(Tail(lines))

parse_tree_text(text) == ParseLines(Split(Strip(text), NL))

\* ------------------------------------------------------------------ resolve
\* A variant of the slice that cuts nothing.
Prefix_NoCut(stack, n) == stack

\* list[:n]
Prefix(stack, n) ==
  IF n >= 0
  THEN SubSeq(stack, 1, IF n < Len(stack) THEN n ELSE Len(stack))
  ELSE SubSeq(stack, 1, IF Len(stack) + n > 0 THEN Len(stack) + n ELSE 0)

\* The path convert_to_file_paths builds for an entry on a cut stack.
FullPath(path_stack, name) ==
  IF path_stack # <<>> THEN PathJoin(Append(path_stack, name)) ELSE name

\* A variant of the loop that gives no path to an entry deeper than the stack
\* is long.
RECURSIVE ResolveFrom_SkipOrphans(_, _, _)
ResolveFrom_SkipOrphans(S, k, path_stack) ==
  IF k > Len(S) THEN <<>>
  ELSE IF S[k].depth > Len(path_stack)
  THEN ResolveFrom_SkipOrphans(S, k + 1, path_stack)
  ELSE LET cut == Prefix(path_stack, S[k].depth)
           next == IF ~S[k].is_file THEN Append(cut, S[k].name) ELSE cut
       IN <<[path |-> FullPath(cut, S[k].name), is_file |-> S[k].is_file]>>
          \o ResolveFrom_SkipOrphans(S, k + 1, next)

\* The loop of convert_to_file_paths from entry k on (counted from 1).
RECURSIVE ResolveFrom(_, _, _)
ResolveFrom(S, k, path_stack) ==
  IF k > Len(S) THEN <<>>
  ELSE LET cut == Prefix(path_stack, S[k].depth)
           next == IF ~S[k].is_file THEN Append(cut, S[k].name) ELSE cut
       IN <<[path |-> FullPath(cut, S[k].name), is_file |-> S[k].is_file]>>
          \o ResolveFrom(S, k + 1, next)

convert_to_file_paths(S) == ResolveFrom(S, 1, <<>>)

\* The path_stack of the loop when it reaches entry k (counted from 1), each
\* name on it given as the index of the entry that pushed it.
RECURSIVE StackBefore(_, _)
StackBefore(S, k) ==
  IF k = 1 THEN <<>>
  ELSE LET cut == Prefix(StackBefore(S, k - 1), S[k - 1].depth)
       IN IF ~S[k - 1].is_file THEN Append(cut, k - 1) ELSE cut

\* The stack as cut for entry k: path_stack[:depth].
CutStack(S, k) == Prefix(StackBefore(S, k), S[k].depth)

\* The names on a stack of entry indices.
StackNames(S, stack) == [i \in 1..Len(stack) |-> S[stack[i]].name]

\* ------------------------------------------------------------- statistics
\* The largest depth of a non-empty list.
MaxDepthOf(S) ==
  CHOOSE d \in {S[k].depth : k \in 1..Len(S)} :
    \A k \in 1..Len(S) : S[k].depth <= d

\* The number of entries of S with the given is_file flag.
CountFlag(S, flag) == Cardinality({k \in 1..Len(S) : S[k].is_file = flag})

\* _calculate_scan_stats: a dict, modelled as a function of its keys; the
\* empty structure gives the empty dict.
calculate_scan_stats(S) ==
  IF S = <<>> THEN <<>>
  ELSE [dirs |-> CountFlag(S, FALSE), files |-> CountFlag(S, TRUE),
        total |-> Len(S), max_depth |-> MaxDepthOf(S)]

\* -------------------------------------------------------------------- state
VARIABLES
  structure,      \* TreeCreator.structure: the list of (name, depth, is_file)
  current_depth,  \* TreeCreator.current_depth: the cursor depth
  screen,         \* what display_tree_with_updates printed last
  last,           \* the last operation: its arguments and what it returned
  text,           \* a tree text: the copy-paste format printed, or the text parsed
  parsed,         \* the list parse_tree_text returned
  paths,          \* the list convert_to_file_paths returned
  pc,             \* the position of the run: the mode, or the step of a run
                  \* that applies one algorithm to an input
  line_out,       \* what parse_tree_line returned
  scan_stats,     \* the dict _calculate_scan_stats returned
  mode_result,    \* main's mode_result
  caller,         \* the call in main that entered the mode: the menu's (lines
                  \* 889-893) or the direct transition's (lines 914, 922)
  create_confirm, \* main's confirm: the answer to 'Proceed with creation?'
  final_confirm,  \* main's final_confirm: the answer to 'Create structure in ...?'
  write_stats,    \* create_file_structure's stats
  write_log       \* the items create_file_structure has attempted, in order

\* The variables of main, of the writer and of the single-algorithm runs.
aux ==
  <<line_out, scan_stats, mode_result, caller, create_confirm, final_confirm, write_stats,
    write_log>>

vars ==
  <<structure, current_depth, screen, last, text, parsed, paths, pc, aux>>

\* Their values when the program starts: nothing returned, nothing answered,
\* nothing written.
AuxInit ==
  /\ line_out = [none |-> TRUE, name |-> <<>>, depth |-> 0]
  /\ scan_stats = <<>>
  /\ mode_result = "none"
  /\ caller = "menu"
  /\ create_confirm = FALSE
  /\ final_confirm = FALSE
  /\ write_stats = [dirs |-> 0, files |-> 0, errors |-> 0]
  /\ write_log = <<>>

\* ------------------------------------------------------------------- bounds
MaxItems == 2       \* entries an interactive session holds at most
MaxDepth == 2       \* the deepest cursor depth of an interactive session
MaxText == 4        \* characters of a text given to add_item or parse_tree_text
MaxLen == 3         \* entries of a sequence given to the renderer or the resolver
MaxTreeDepth == 2   \* the deepest depth in such a sequence
MaxLine == 5        \* characters of a line given to parse_tree_line

\* ------------------------------------------------------------------ display
\* The entry lines display_tree_with_updates prints: the marker of the
\* highlighted entry, the index, and prefix + icon + name.
ScreenLines(S, highlight_index) ==
  [k \in 1..Len(S) |->
     [highlight |-> (k - 1 = highlight_index), index |-> k - 1,
      line |-> ExportLine(S, k - 1)]]

\* display_tree_with_updates: the entry lines, then print_commands_summary's
\* cursor depth and item count.
display_tree_with_updates(S, depth, highlight_index) ==
  [lines |-> ScreenLines(S, highlight_index), depth |-> depth, items |-> Len(S)]

\* The text of the lines on the screen, without index and highlight marker.
LinesOf(scr) == [k \in 1..Len(scr.lines) |-> scr.lines[k].line]

\* What an operation is recorded as: arg is the name or text given, flag the
\* is_file argument, num the depth or index given, ret whether the call
\* returned a true value, shown whether the handler redrew the tree.
Last(op, arg, flag, num, ret, shown) ==
  [op |-> op, arg |-> arg, flag |-> flag, num |-> num, ret |-> ret, shown |-> shown]

\* ------------------------------------------------- the interactive session
\* Names given to add_item: empty, blank, and a name with an extension between
\* blanks.
AddNames == {<<>>, <<SP>>, <<SP, "a", DOT, "b", SP>>}

\* Texts pasted: a lone '/', a lone glyph, and a two-line tree.
PasteTexts ==
  {<<SLASH>>, <<VBAR>>, <<"a", NL, TEE, DASH, DASH, SP, "a", DOT, "b">>}

Init ==
  /\ structure = <<>>
  /\ current_depth = 0
  /\ screen = display_tree_with_updates(<<>>, 0, -1)
  /\ last = Last("start", <<>>, "None", 0, FALSE, TRUE)
  /\ text = <<>>
  /\ parsed = <<>>
  /\ paths = <<>>
  /\ pc = "interactive"
  /\ AuxInit

\* The add command: add_item at the cursor depth, redraw on success.
CmdAdd(name, is_file) ==
  /\ pc = "interactive"
  /\ Len(structure) < MaxItems
  /\ LET r == add_item(structure, name, current_depth, is_file)
     IN /\ structure' = r.structure
        /\ screen' = IF r.ret
                     THEN display_tree_with_updates(r.structure, current_depth,
                                                    Len(r.structure) - 1)
                     ELSE screen
        /\ last' = Last("add", name, is_file, current_depth, r.ret, r.ret)
  /\ UNCHANGED <<current_depth, text, parsed, paths, pc>>
  /\ UNCHANGED aux

\* The indent command.
CmdIndent ==
  /\ pc = "interactive"
  /\ current_depth < MaxDepth
  /\ current_depth' = current_depth + 1
  /\ screen' = display_tree_with_updates(structure, current_depth + 1, -1)
  /\ last' = Last("indent", <<>>, "None", 0, TRUE, TRUE)
  /\ UNCHANGED <<structure, text, parsed, paths, pc>>
  /\ UNCHANGED aux

\* A variant of the outdent command without the test of the depth.
CmdOutdent_NoGuard ==
  /\ pc = "interactive"
  /\ current_depth' = current_depth - 1
  /\ screen' = display_tree_with_updates(structure, current_depth - 1, -1)
  /\ last' = Last("outdent", <<>>, "None", 0, TRUE, TRUE)
  /\ UNCHANGED <<structure, text, parsed, paths, pc>>
  /\ UNCHANGED aux

\* The outdent command: nothing happens at depth 0.
CmdOutdent ==
  /\ pc = "interactive"
  /\ IF current_depth > 0
     THEN /\ current_depth' = current_depth - 1
          /\ screen' = display_tree_with_updates(structure, current_depth - 1, -1)
          /\ last' = Last("outdent", <<>>, "None", 0, TRUE, TRUE)
     ELSE /\ last' = Last("outdent", <<>>, "None", 0, FALSE, FALSE)
          /\ UNCHANGED <<current_depth, screen>>
  /\ UNCHANGED <<structure, text, parsed, paths, pc>>
  /\ UNCHANGED aux

\* The depth <n> command: a negative n is refused.
CmdDepth(n) ==
  /\ pc = "interactive"
  /\ IF n >= 0
     THEN /\ current_depth' = n
          /\ screen' = display_tree_with_updates(structure, n, -1)
          /\ last' = Last("depth", <<>>, "None", n, TRUE, TRUE)
     ELSE /\ last' = Last("depth", <<>>, "None", n, FALSE, FALSE)
          /\ UNCHANGED <<current_depth, screen>>
  /\ UNCHANGED <<structure, text, parsed, paths, pc>>
  /\ UNCHANGED aux

\* The remove <n> command: remove_item, redraw when it returned a true value
\* (a removed entry whose name is empty counts as nothing removed).
CmdRemove(index) ==
  /\ pc = "interactive"
  /\ LET r == remove_item(structure, index)
         removed == ~r.none /\ r.ret # <<>>
     IN /\ structure' = r.structure
        /\ screen' = IF removed
                     THEN display_tree_with_updates(r.structure, current_depth, -1)
                     ELSE screen
        /\ last' = Last("remove", <<>>, "None", index, ~r.none, removed)
  /\ UNCHANGED <<current_depth, text, parsed, paths, pc>>
  /\ UNCHANGED aux

\* A variant of the show command that drops the last entry as it redraws.
CmdShow_Consuming ==
  /\ pc = "interactive"
  /\ structure' = SubSeq(structure, 1, Len(structure) - 1)
  /\ screen' = display_tree_with_updates(structure, current_depth, -1)
  /\ last' = Last("show", <<>>, "None", 0, TRUE, TRUE)
  /\ UNCHANGED <<current_depth, text, parsed, paths, pc>>
  /\ UNCHANGED aux

\* The show command: redraw.
CmdShow ==
  /\ pc = "interactive"
  /\ screen' = display_tree_with_updates(structure, current_depth, -1)
  /\ last' = Last("show", <<>>, "None", 0, TRUE, TRUE)
  /\ UNCHANGED <<structure, current_depth, text, parsed, paths, pc>>
  /\ UNCHANGED aux

\* The clear command, with the answer to its confirmation.
CmdClear(confirm) ==
  /\ pc = "interactive"
  /\ IF confirm
     THEN /\ structure' = <<>>
          /\ current_depth' = 0
          /\ screen' = display_tree_with_updates(<<>>, 0, -1)
          /\ last' = Last("clear", <<>>, "None", 0, TRUE, TRUE)
     ELSE /\ last' = Last("clear", <<>>, "None", 0, FALSE, FALSE)
          /\ UNCHANGED <<structure, current_depth, screen>>
  /\ UNCHANGED <<text, parsed, paths, pc>>
  /\ UNCHANGED aux

\* paste_mode on a pasted text: the parsed list replaces the structure unless
\* it is empty; tree_text and parsed_structure are locals of paste_mode.
Paste(tree_text) ==
  /\ pc = "interactive"
  /\ LET parsed_structure == parse_tree_text(tree_text)
     IN /\ Len(parsed_structure) <= MaxItems
        /\ IF parsed_structure = <<>>
           THEN /\ last' = Last("paste", tree_text, "None", 0, FALSE, FALSE)
                /\ UNCHANGED <<structure, screen>>
           ELSE /\ structure' = parsed_structure
                /\ screen' = display_tree_with_updates(parsed_structure,
                                                       current_depth, -1)
                /\ last' = Last("paste", tree_text, "None", 0, TRUE, TRUE)
  /\ UNCHANGED <<current_depth, text, parsed, paths, pc>>
  /\ UNCHANGED aux

\* Lists a directory scan leaves in the structure: an empty directory, and a
\* folder with one file in it.
ScanResults ==
  {<<>>, <<Entry(<<"a">>, 0, FALSE), Entry(<<"a", DOT, "b">>, 1, TRUE)>>}

\* The scan command and the way back: scan_mode on a directory that
\* scan_directory lists (found) or refuses, then back through the menu to
\* interactive mode, which draws the tree as it starts.
Scan(listed, found) ==
  /\ pc = "interactive"
  /\ Len(listed) <= MaxItems
  /\ structure' = IF found THEN listed ELSE structure
  /\ screen' = display_tree_with_updates(structure', current_depth, -1)
  /\ last' = Last("scan", <<>>, "None", 0, found, TRUE)
  /\ UNCHANGED <<current_depth, text, parsed, paths, pc>>
  /\ UNCHANGED aux

Next ==
  \/ \E name \in AddNames, is_file \in IsFileArgs : CmdAdd(name, is_file)
  \/ CmdIndent
  \/ CmdOutdent
  \/ \E n \in -1..MaxDepth : CmdDepth(n)
  \/ \E index \in -1..MaxItems : CmdRemove(index)
  \/ CmdShow
  \/ \E confirm \in BOOLEAN : CmdClear(confirm)
  \/ \E tree_text \in PasteTexts : Paste(tree_text)
  \/ \E listed \in ScanResults, found \in BOOLEAN : Scan(listed, found)

Spec == Init /\ [][Next]_vars

\* ------------------------------------- add_item and parse_tree_text on a text
\* Every sequence over alphabet of at most n elements.
RECURSIVE SeqsUpTo(_, _)
SeqsUpTo(alphabet, n) ==
  IF n = 0 THEN {<<>>}
  ELSE LET shorter == SeqsUpTo(alphabet, n - 1)
       IN shorter \cup {Append(t, c) : t \in shorter, c \in alphabet}

\* The characters of the texts: a letter, the dot, the separator, blanks and
\* three of the glyphs.
TextAlphabet == {"a", DOT, SLASH, SP, NL, VBAR, TEE, DASH}

Texts == SeqsUpTo(TextAlphabet, MaxText)

InitText ==
  /\ structure = <<>>
  /\ current_depth = 0
  /\ screen = display_tree_with_updates(<<>>, 0, -1)
  /\ last = Last("start", <<>>, "None", 0, FALSE, TRUE)
  /\ text \in Texts
  /\ parsed = <<>>
  /\ paths = <<>>
  /\ pc = "input"
  /\ AuxInit

\* add_item(text, 0, is_file) on the empty structure; a line read from the
\* terminal holds no line break.
TextAdd(is_file) ==
  /\ pc = "input"
  /\ ~Contains(text, NL)
  /\ LET r == add_item(structure, text, current_depth, is_file)
     IN /\ structure' = r.structure
        /\ last' = Last("add", text, is_file, current_depth, r.ret, FALSE)
  /\ pc' = "added"
  /\ UNCHANGED <<current_depth, screen, text, parsed, paths>>
  /\ UNCHANGED aux

\* parse_tree_text(text)
TextParse ==
  /\ pc = "input"
  /\ parsed' = parse_tree_text(text)
  /\ last' = Last("parse", text, "None", 0, TRUE, FALSE)
  /\ pc' = "parsed"
  /\ UNCHANGED <<structure, current_depth, screen, text, paths>>
  /\ UNCHANGED aux

NextText ==
  \/ \E is_file \in IsFileArgs : TextAdd(is_file)
  \/ TextParse

SpecText == InitText /\ [][NextText]_vars

\* ------------------------------- render, parse back and resolve a sequence
\* Names of the entries: a plain name and a name that starts with the separator.
TreeNames == {<<"a">>, <<SLASH, "b">>}

TreeEntries ==
  {Entry(n, d, f) : n \in TreeNames, d \in 0..MaxTreeDepth, f \in BOOLEAN}

TreeInputs == SeqsUpTo(TreeEntries, MaxLen)

InitTree ==
  /\ structure \in TreeInputs
  /\ current_depth = 0
  /\ screen = display_tree_with_updates(<<>>, 0, -1)
  /\ last = Last("start", <<>>, "None", 0, FALSE, TRUE)
  /\ text = <<>>
  /\ parsed = <<>>
  /\ paths = <<>>
  /\ pc = "input"
  /\ AuxInit

\* _export_structure_display: the copy-paste format of a non-empty structure.
TreeExport ==
  /\ pc = "input"
  /\ structure # <<>>
  /\ text' = Join(ExportLines(structure), NL)
  /\ last' = Last("export", <<>>, "None", 0, TRUE, TRUE)
  /\ pc' = "exported"
  /\ UNCHANGED <<structure, current_depth, screen, parsed, paths>>
  /\ UNCHANGED aux

\* parse_tree_text on the text just printed.
TreeParse ==
  /\ pc = "exported"
  /\ parsed' = parse_tree_text(text)
  /\ last' = Last("parse", text, "None", 0, TRUE, FALSE)
  /\ pc' = "parsed"
  /\ UNCHANGED <<structure, current_depth, screen, text, paths>>
  /\ UNCHANGED aux

\* convert_to_file_paths
TreeResolve ==
  /\ pc = "input"
  /\ paths' = convert_to_file_paths(structure)
  /\ last' = Last("resolve", <<>>, "None", 0, TRUE, FALSE)
  /\ pc' = "resolved"
  /\ UNCHANGED <<structure, current_depth, screen, text, parsed>>
  /\ UNCHANGED aux

\* _calculate_scan_stats
TreeStats ==
  /\ pc = "input"
  /\ scan_stats' = calculate_scan_stats(structure)
  /\ last' = Last("stats", <<>>, "None", 0, TRUE, FALSE)
  /\ pc' = "stats"
  /\ UNCHANGED <<structure, current_depth, screen, text, parsed, paths, line_out,
                 mode_result, caller, create_confirm, final_confirm, write_stats, write_log>>

NextTree ==
  \/ TreeExport
  \/ TreeParse
  \/ TreeResolve
  \/ TreeStats

SpecTree == InitTree /\ [][NextTree]_vars

\* ------------------------------------------------- parse_tree_line on a line
\* The characters of the lines: a letter, the blanks and the four glyphs.
LineAlphabet == {"a", SP, TAB, VBAR, TEE, CORNER, DASH}

Lines == SeqsUpTo(LineAlphabet, MaxLine)

InitLine ==
  /\ structure = <<>>
  /\ current_depth = 0
  /\ screen = display_tree_with_updates(<<>>, 0, -1)
  /\ last = Last("start", <<>>, "None", 0, FALSE, TRUE)
  /\ text \in Lines
  /\ parsed = <<>>
  /\ paths = <<>>
  /\ pc = "input"
  /\ AuxInit

\* parse_tree_line on the line.
LineParse ==
  /\ pc = "input"
  /\ line_out' = parse_tree_line(text)
  /\ last' = Last("parse_line", text, "None", 0, ~parse_tree_line(text).none, FALSE)
  /\ pc' = "line_parsed"
  /\ UNCHANGED <<structure, current_depth, screen, text, parsed, paths, scan_stats,
                 mode_result, caller, create_confirm, final_confirm, write_stats, write_log>>

NextLine == LineParse

SpecLine == InitLine /\ [][NextLine]_vars

\* ------------------------------------------------------------ the main loop
\* 4 stands for every choice that stays at the menu.
MenuChoices == {"1", "2", "3", "4", "5"}

\* 2 stands for every choice that asks again, 3 for 6.
ScanChoices == {"1", "2", "3", "4"}

InitMain ==
  /\ structure = <<>>
  /\ current_depth = 0
  /\ screen = display_tree_with_updates(<<>>, 0, -1)
  /\ last = Last("start", <<>>, "None", 0, FALSE, FALSE)
  /\ text = <<>>
  /\ parsed = <<>>
  /\ paths = <<>>
  /\ pc = "menu"
  /\ AuxInit

\* What main does with the value a mode returned (lines 907-946), S being the
\* structure the mode left and site the call that entered the mode: exit; go
\* on to the first confirmation when the result is "create" and S is not
\* empty; enter scan or paste mode directly when the menu's call returned
\* that; back to the menu otherwise.
HandleModeResult(result, site, S) ==
  /\ mode_result' = result
  /\ IF result = "exit"
     THEN pc' = "exited" /\ UNCHANGED <<caller, screen>>
     ELSE IF result = "create"
     THEN IF S = <<>>
          THEN pc' = "menu" /\ UNCHANGED <<caller, screen>>
          ELSE /\ pc' = "confirm"
               /\ screen' = display_tree_with_updates(S, current_depth, -1)
               /\ UNCHANGED caller
     ELSE IF site = "menu" /\ result \in {"scan_mode", "paste_mode"}
     THEN pc' = result /\ caller' = "direct" /\ UNCHANGED screen
     ELSE pc' = "menu" /\ UNCHANGED <<caller, screen>>

\* The locals of one turn of main's loop and of create_file_structure are
\* dead when the turn ends: they are put back to their first values.
EndTurn ==
  /\ paths' = <<>>
  /\ create_confirm' = FALSE
  /\ final_confirm' = FALSE
  /\ write_stats' = [dirs |-> 0, files |-> 0, errors |-> 0]
  /\ write_log' = <<>>

\* The frame of a step that only moves between modes.
ModeFrame ==
  UNCHANGED <<text, parsed, paths, line_out, create_confirm, final_confirm,
              write_stats, write_log>>

\* The mode menu: 1 interactive (which draws the tree on entry), 2 paste,
\* 3 scan, 5 exit; 4 shows the help and anything else is refused.
MainMenu(choice) ==
  /\ pc = "menu"
  /\ last' = Last("menu", <<choice>>, "None", 0, choice \in {"1", "2", "3", "5"}, choice = "1")
  /\ pc' = CASE choice = "1" -> "interactive"
             [] choice = "2" -> "paste_mode"
             [] choice = "3" -> "scan_mode"
             [] choice = "5" -> "exited"
             [] OTHER -> "menu"
  /\ caller' = "menu"
  /\ screen' = IF choice = "1"
               THEN display_tree_with_updates(structure, current_depth, -1)
               ELSE screen
  /\ UNCHANGED <<structure, current_depth, scan_stats, mode_result>>
  /\ ModeFrame

\* The scan and paste commands of interactive mode: return "scan_mode" or
\* "paste_mode" to main.
CmdSwitchMode(result) ==
  /\ pc = "interactive"
  /\ last' = Last(result, <<>>, "None", 0, TRUE, FALSE)
  /\ HandleModeResult(result, "menu", structure)
  /\ UNCHANGED <<structure, current_depth, scan_stats>>
  /\ ModeFrame

\* The done command: return "create" unless the tree is empty.
CmdDone ==
  /\ pc = "interactive"
  /\ last' = Last("done", <<>>, "None", 0, structure # <<>>, FALSE)
  /\ IF structure # <<>>
     THEN HandleModeResult("create", "menu", structure)
     ELSE UNCHANGED <<pc, mode_result, caller, screen>>
  /\ UNCHANGED <<structure, current_depth, scan_stats>>
  /\ ModeFrame

\* The exit command, with the answer to its confirmation.
CmdExit(answer) ==
  /\ pc = "interactive"
  /\ last' = Last("exit", <<>>, "None", 0, answer, FALSE)
  /\ IF answer
     THEN HandleModeResult("exit", "menu", structure)
     ELSE UNCHANGED <<pc, mode_result, caller, screen>>
  /\ UNCHANGED <<structure, current_depth, scan_stats>>
  /\ ModeFrame

\* paste_mode left by 'back' or with no content: return "interactive".
PasteBack ==
  /\ pc = "paste_mode"
  /\ last' = Last("paste_back", <<>>, "None", 0, FALSE, FALSE)
  /\ HandleModeResult("interactive", caller, structure)
  /\ UNCHANGED <<structure, current_depth, scan_stats>>
  /\ ModeFrame

\* paste_mode on a pasted text: an empty parse returns "interactive" and
\* leaves the structure; otherwise the parsed list replaces the structure,
\* the tree is drawn and "create" is returned.
PasteText(tree_text) ==
  /\ pc = "paste_mode"
  /\ LET parsed_structure == parse_tree_text(tree_text)
     IN /\ Len(parsed_structure) <= MaxItems
        /\ IF parsed_structure = <<>>
           THEN /\ last' = Last("paste", tree_text, "None", 0, FALSE, FALSE)
                /\ HandleModeResult("interactive", caller, structure)
                /\ UNCHANGED structure
           ELSE /\ structure' = parsed_structure
                /\ last' = Last("paste", tree_text, "None", 0, TRUE, TRUE)
                /\ HandleModeResult("create", caller, parsed_structure)
  /\ UNCHANGED <<current_depth, scan_stats>>
  /\ ModeFrame

\* scan_mode left by 'back', or after a failed scan with no retry: return
\* "interactive". A scan that fails on a missing directory leaves the
\* structure; one that fails while listing leaves what it had listed.
ScanGiveUp(listed) ==
  /\ pc = "scan_mode"
  /\ Len(listed) <= MaxItems
  /\ structure' \in {structure, listed}
  /\ last' = Last("scan_back", <<>>, "None", 0, FALSE, FALSE)
  /\ HandleModeResult("interactive", caller, structure')
  /\ UNCHANGED <<current_depth, scan_stats>>
  /\ ModeFrame

\* scan_mode on a directory scan_directory lists: the listing replaces the
\* structure, the statistics are computed, the post-scan options follow.
ScanDirectory(listed) ==
  /\ pc = "scan_mode"
  /\ Len(listed) <= MaxItems
  /\ structure' = listed
  /\ scan_stats' = calculate_scan_stats(listed)
  /\ last' = Last("scan", <<>>, "None", 0, TRUE, FALSE)
  /\ pc' = "scan_results"
  /\ UNCHANGED <<current_depth, screen, mode_result, caller>>
  /\ ModeFrame

\* _handle_scan_results: 1 returns "create", 3 and 6 "interactive",
\* 4 "scan_mode"; 2 and 5 export and ask again, as anything else does.
ScanOption(choice) ==
  /\ pc = "scan_results"
  /\ last' = Last("scan_option", <<choice>>, "None", 0, choice \in {"1", "3", "4", "6"}, FALSE)
  /\ IF choice = "1" THEN HandleModeResult("create", caller, structure)
     ELSE IF choice \in {"3", "6"} THEN HandleModeResult("interactive", caller, structure)
     ELSE IF choice = "4" THEN HandleModeResult("scan_mode", caller, structure)
     ELSE UNCHANGED <<pc, mode_result, caller, screen>>
  /\ scan_stats' = IF choice \in {"1", "3", "4"} THEN <<>> ELSE scan_stats
  /\ UNCHANGED <<structure, current_depth>>
  /\ ModeFrame

\* 'Proceed with creation?': on yes get_base_directory returns a directory
\* and convert_to_file_paths gives the paths, which are not empty; on no, the
\* menu.
ProceedConfirm(answer) ==
  /\ pc = "confirm"
  /\ create_confirm' = answer
  /\ last' = Last("confirm", <<>>, "None", 0, answer, FALSE)
  /\ IF answer
     THEN /\ paths' = convert_to_file_paths(structure)
          /\ pc' = IF convert_to_file_paths(structure) = <<>> THEN "menu"
                   ELSE "final_confirm"
     ELSE pc' = "menu" /\ UNCHANGED paths
  /\ UNCHANGED <<structure, current_depth, screen, text, parsed, line_out, scan_stats,
                 mode_result, caller, final_confirm, write_stats, write_log>>

\* A variant of the final confirmation that goes on whatever the answer.
FinalConfirm_Ignored(answer) ==
  /\ pc = "final_confirm"
  /\ final_confirm' = answer
  /\ last' = Last("final_confirm", <<>>, "None", 0, answer, FALSE)
  /\ pc' = "writing"
  /\ write_stats' = [dirs |-> 0, files |-> 0, errors |-> 0]
  /\ write_log' = <<>>
  /\ UNCHANGED <<structure, current_depth, screen, text, parsed, paths, line_out,
                 scan_stats, mode_result, caller, create_confirm>>

\* 'Create structure in ...?': on yes create_file_structure is called and
\* starts with zeroed stats; on no, the menu.
FinalConfirm(answer) ==
  /\ pc = "final_confirm"
  /\ last' = Last("final_confirm", <<>>, "None", 0, answer, FALSE)
  /\ IF answer
     THEN /\ pc' = "writing"
          /\ final_confirm' = answer
          /\ write_stats' = [dirs |-> 0, files |-> 0, errors |-> 0]
          /\ write_log' = <<>>
          /\ UNCHANGED <<paths, create_confirm>>
     ELSE pc' = "menu" /\ EndTurn
  /\ UNCHANGED <<structure, current_depth, screen, text, parsed, line_out,
                 scan_stats, mode_result, caller>>

\* The stats after one item: a success counts as a file or a directory, an
\* exception as an error.
StatsAfter(stats, is_file, ok) ==
  IF ~ok THEN [stats EXCEPT !.errors = @ + 1]
  ELSE IF is_file THEN [stats EXCEPT !.files = @ + 1]
  ELSE [stats EXCEPT !.dirs = @ + 1]

\* A variant of the loop step that leaves the loop at the first exception.
WriteItem_Abort(ok) ==
  /\ pc = "writing"
  /\ LET item == paths[Len(write_log) + 1]
     IN /\ write_stats' = StatsAfter(write_stats, item.is_file, ok)
        /\ write_log' = Append(write_log,
                               [path |-> item.path, is_file |-> item.is_file, ok |-> ok])
        /\ last' = Last("write", item.path, "None", Len(write_log), ok, FALSE)
  /\ pc' = IF ~ok \/ Len(write_log) + 1 = Len(paths) THEN "next_choice" ELSE "writing"
  /\ UNCHANGED <<structure, current_depth, screen, text, parsed, paths, line_out,
                 scan_stats, mode_result, caller, create_confirm, final_confirm>>

\* One turn of create_file_structure's loop: the next item is created, or the
\* file system raises and the exception is counted; after the last item the
\* call returns and main asks what to do next.
WriteItem(ok) ==
  /\ pc = "writing"
  /\ LET item == paths[Len(write_log) + 1]
     IN /\ write_stats' = StatsAfter(write_stats, item.is_file, ok)
        /\ write_log' = Append(write_log,
                               [path |-> item.path, is_file |-> item.is_file, ok |-> ok])
        /\ last' = Last("write", item.path, "None", Len(write_log), ok, FALSE)
  /\ pc' = IF Len(write_log) + 1 = Len(paths) THEN "next_choice" ELSE "writing"
  /\ UNCHANGED <<structure, current_depth, screen, text, parsed, paths, line_out,
                 scan_stats, mode_result, caller, create_confirm, final_confirm>>

\* After the creation: 1 clears the structure and goes back to the menu,
\* anything else exits.
NextChoice(again) ==
  /\ pc = "next_choice"
  /\ last' = Last("next_choice", <<>>, "None", 0, again, FALSE)
  /\ IF again
     THEN structure' = <<>> /\ current_depth' = 0 /\ pc' = "menu"
     ELSE pc' = "exited" /\ UNCHANGED <<structure, current_depth>>
  /\ EndTurn
  /\ UNCHANGED <<screen, text, parsed, line_out, scan_stats, mode_result, caller>>

NextMain ==
  \/ \E choice \in MenuChoices : MainMenu(choice)
  \/ \E name \in AddNames, is_file \in IsFileArgs : CmdAdd(name, is_file)
  \/ \E answer \in BOOLEAN : CmdClear(answer)
  \/ \E result \in {"scan_mode", "paste_mode"} : CmdSwitchMode(result)
  \/ CmdDone
  \/ \E answer \in BOOLEAN : CmdExit(answer)
  \/ PasteBack
  \/ \E tree_text \in PasteTexts : PasteText(tree_text)
  \/ \E listed \in ScanResults : ScanGiveUp(listed)
  \/ \E listed \in ScanResults : ScanDirectory(listed)
  \/ \E choice \in ScanChoices : ScanOption(choice)
  \/ \E answer \in BOOLEAN : ProceedConfirm(answer)
  \/ \E answer \in BOOLEAN : FinalConfirm(answer)
  \/ \E ok \in BOOLEAN : WriteItem(ok)
  \/ \E again \in BOOLEAN : NextChoice(again)

SpecMain == InitMain /\ [][NextMain]_vars

\* ------------------------------------------------------------ properties
\* The pre-order invariant: the first entry is at depth 0 and no entry is more
\* than one level deeper than its predecessor.
PreOrder(S) ==
  /\ S # <<>> => S[1].depth = 0
  /\ \A k \in 2..Len(S) : S[k].depth <= S[k - 1].depth + 1

\* The lines of the text in the state.
TextLines == Split(text, NL)

Glyphs == {VBAR, TEE, CORNER, DASH}

\* C1: round trip. For every entry sequence that satisfies the pre-order
\* invariant, parsing its copy-paste rendering gives the same sequence of
\* (name, depth, is_file), and no parsed name holds an icon.
C1_RoundTrip ==
  (pc = "parsed" /\ PreOrder(structure)) =>
    /\ parsed = structure
    /\ \A k \in 1..Len(parsed) :
         ~Contains(parsed[k].name, DIR_ICON) /\ ~Contains(parsed[k].name, FILE_ICON)

\* Every entry directly followed by a deeper one is a folder.
ParentsAreFolders(S) ==
  \A k \in 1..(Len(S) - 1) : S[k + 1].depth > S[k].depth => ~S[k].is_file

\* The parent of entry k: the nearest preceding entry one level up.
ParentOf(S, k) ==
  CHOOSE j \in 1..(k - 1) :
    /\ S[j].depth = S[k].depth - 1
    /\ \A m \in (j + 1)..(k - 1) : S[m].depth # S[k].depth - 1

\* C2: path resolution. For a pre-order sequence whose entries with a deeper
\* successor are folders, a depth-0 entry resolves to its name and a deeper
\* entry to its parent's path, the separator, and its own name.
C2_ResolveUnderParent ==
  (pc = "resolved" /\ PreOrder(structure) /\ ParentsAreFolders(structure)) =>
    /\ Len(paths) = Len(structure)
    /\ \A k \in 1..Len(structure) :
         paths[k].path =
           IF structure[k].depth = 0 THEN structure[k].name
           ELSE paths[ParentOf(structure, k)].path \o <<SLASH>> \o structure[k].name

\* Entry k is the last of its siblings: no later entry has its depth before a
\* shallower entry is met.
LastSibling(S, k) ==
  \A j \in (k + 1)..Len(S) :
    S[j].depth = S[k].depth => \E m \in (k + 1)..(j - 1) : S[m].depth < S[k].depth

\* The line of entry k without any prefix.
BareLine(S, k) == <<Icon(S[k].is_file), SP>> \o S[k].name

\* The 4-character token of a line at an entry's own level, depth d >= 1.
OwnToken(line, d) == SubSeq(line, 4 * (d - 1) + 1, 4 * d)

\* C3 as the spec states it: of two consecutive siblings x, y at depth 0 with
\* y the last entry at depth 0, x's line carries the branch connector and y's
\* line the corner connector.
C3_RootSiblingsMarked ==
  pc = "exported" =>
    \A k \in 1..(Len(structure) - 1) :
      ( /\ structure[k].depth = 0
        /\ structure[k + 1].depth = 0
        /\ \A j \in (k + 2)..Len(structure) : structure[j].depth # 0 ) =>
        /\ HasSub(TextLines[k], TeeToken)
        /\ HasSub(TextLines[k + 1], CornerToken)

\* C3, amended: of two consecutive siblings x, y at depth d with y the last
\* sibling, for d >= 1 the own-level token of x's line is the branch connector
\* and that of y's line the corner connector; for d = 0 both lines are icon,
\* space and name with no connector at all.
C3_SiblingsMarked ==
  pc = "exported" =>
    \A k \in 1..(Len(structure) - 1) :
      (structure[k + 1].depth = structure[k].depth /\ LastSibling(structure, k + 1)) =>
        IF structure[k].depth = 0
        THEN /\ TextLines[k] = BareLine(structure, k)
             /\ TextLines[k + 1] = BareLine(structure, k + 1)
        ELSE /\ OwnToken(TextLines[k], structure[k].depth) = TeeToken
             /\ OwnToken(TextLines[k + 1], structure[k].depth) = CornerToken

\* C3's case: a parent, then two siblings at depth 1, rendered.
C3_Witness ==
  /\ pc = "exported"
  /\ Len(structure) = 3
  /\ structure[1].depth = 0
  /\ structure[2].depth = 1
  /\ structure[3].depth = 1

\* The rule of the auto-classification, by positions: the base name starts
\* after the last separator; the name is a file when a dot occurs in the base
\* name, the base name does not start with a dot, and the name does not end
\* with the separator.
FileByRule(n) ==
  LET seps == {i \in 1..Len(n) : n[i] = SLASH}
      start == IF seps = {} THEN 1
               ELSE 1 + CHOOSE i \in seps : \A j \in seps : j <= i
  IN /\ \E i \in start..Len(n) : n[i] = DOT
     /\ ~(start <= Len(n) /\ n[start] = DOT)
     /\ ~(n # <<>> /\ n[Len(n)] = SLASH)

\* C4: auto-classification in add. With is_file unspecified the appended
\* entry is a file exactly when the rule says so; with is_file given the
\* stored flag is the given value.
C4_AutoClassify ==
  (pc = "added" /\ last.ret) =>
    LET e == structure[Len(structure)]
    IN e.is_file = IF last.flag = "None" THEN FileByRule(e.name)
                   ELSE last.flag = "True"

\* C4's case: a name with an extension added without is_file is a file.
C4_Witness ==
  /\ pc = "added"
  /\ last.flag = "None"
  /\ text = <<"a", DOT, "a">>
  /\ structure = <<Entry(<<"a", DOT, "a">>, 0, TRUE)>>

\* A line parse_tree_text takes an entry from.
IsUsable(line) == Strip(line) # <<>> /\ LineName(line) # <<>>

UsableLines(t) == SelectSeq(Split(Strip(t), NL), IsUsable)

\* The flag add_item stores for a name when is_file is not given.
AddFlagOf(name) == add_item(<<>>, name, 0, "None").structure[1].is_file

\* C5: parse classifies with add's rule. For every name extracted from a
\* line, the flag parse stores is the flag add would store for that name.
C5_ParseClassifiesLikeAdd ==
  pc = "parsed" =>
    /\ Len(parsed) = Len(UsableLines(text))
    /\ \A k \in 1..Len(parsed) :
         parsed[k].is_file = AddFlagOf(LineName(UsableLines(text)[k]))

\* C6: add with an empty or blank name fails and leaves the sequence as it
\* was; add with any other name succeeds and appends exactly one entry, the
\* trimmed name at the given depth, after the unchanged earlier entries.
C6_AddAppendsOne ==
  [][ last'.op = "add" =>
        IF \A i \in 1..Len(last'.arg) : last'.arg[i] \in Whitespace
        THEN ~last'.ret /\ structure' = structure
        ELSE /\ last'.ret
             /\ Len(structure') = Len(structure) + 1
             /\ SubSeq(structure', 1, Len(structure)) = structure
             /\ structure'[Len(structure')].depth = last'.num
             /\ LET n == structure'[Len(structure')].name
                IN /\ n # <<>>
                   /\ n[1] \notin Whitespace
                   /\ n[Len(n)] \notin Whitespace
                   /\ \E i \in 0..Len(last'.arg) :
                        /\ SubSeq(last'.arg, i + 1, i + Len(n)) = n
                        /\ \A j \in 1..Len(last'.arg) :
                             (j <= i \/ j > i + Len(n)) => last'.arg[j] \in Whitespace
    ]_vars

\* C6's case: a blank name was refused while an entry was held.
C6_Witness ==
  /\ last.op = "add"
  /\ last.arg = <<SP>>
  /\ ~last.ret
  /\ Len(structure) = 1

\* C7: remove with an index outside 0..len-1, negative ones included, returns
\* nothing removed and leaves the sequence unchanged.
C7_RemoveOutOfRange ==
  [][ (last'.op = "remove" /\ (last'.num < 0 \/ last'.num >= Len(structure))) =>
        (~last'.ret /\ structure' = structure)
    ]_vars

\* C7's case: index -1 was given while two entries were held.
C7_Witness ==
  /\ last.op = "remove"
  /\ last.num = -1
  /\ ~last.ret
  /\ Len(structure) = 2

\* C8: empty-input guard. A text of blanks, line breaks and glyphs only
\* parses to the empty sequence.
C8_EmptyGuard ==
  (pc = "parsed" /\ \A i \in 1..Len(text) : text[i] \in Whitespace \cup Glyphs) =>
    parsed = <<>>

\* C8's case: a text of a blank, a line break and a glyph was parsed.
C8_Witness ==
  /\ pc = "parsed"
  /\ text = <<SP, NL, VBAR>>
  /\ parsed = <<>>

C10_NamesNonEmpty ==
  \A k \in 1..Len(structure) : structure[k].name # <<>>

\* C11: best-effort batch write. While the writer runs and when it has
\* returned, the items attempted so far are the first pairs of its input, in
\* order; directories created + files created + errors is the number of items
\* attempted, each counter being the number of logged items of its kind; the
\* loop is left only when every pair has been attempted, whatever failed.
C11_BestEffort ==
  pc \in {"writing", "next_choice"} =>
    /\ Len(write_log) <= Len(paths)
    /\ \A k \in 1..Len(write_log) :
         write_log[k].path = paths[k].path /\ write_log[k].is_file = paths[k].is_file
    /\ write_stats.errors = Cardinality({k \in 1..Len(write_log) : ~write_log[k].ok})
    /\ write_stats.files =
         Cardinality({k \in 1..Len(write_log) : write_log[k].ok /\ write_log[k].is_file})
    /\ write_stats.dirs =
         Cardinality({k \in 1..Len(write_log) : write_log[k].ok /\ ~write_log[k].is_file})
    /\ write_stats.dirs + write_stats.files + write_stats.errors = Len(write_log)
    /\ pc = "writing" => Len(write_log) < Len(paths)
    /\ pc = "next_choice" => Len(write_log) = Len(paths)

\* The writer has returned after a first item that failed and a later one
\* that was created.
C11_Witness ==
  /\ pc = "next_choice"
  /\ Len(write_log) >= 2
  /\ ~write_log[1].ok
  /\ write_log[2].ok

StatKeys == {"dirs", "files", "total", "max_depth"}

\* C12: stats. For every entry sequence, the empty one included, the result
\* holds the four values: folders = number of non-file entries, files = number
\* of file entries, total = the length, and the largest depth present, 0 for
\* the empty sequence.
C12_StatsOfEvery ==
  pc = "stats" =>
    /\ DOMAIN scan_stats = StatKeys
    /\ scan_stats.dirs = CountFlag(structure, FALSE)
    /\ scan_stats.files = CountFlag(structure, TRUE)
    /\ scan_stats.total = Len(structure)
    /\ scan_stats.dirs + scan_stats.files = scan_stats.total
    /\ \A k \in 1..Len(structure) : structure[k].depth <= scan_stats.max_depth
    /\ IF structure = <<>> THEN scan_stats.max_depth = 0
       ELSE \E k \in 1..Len(structure) : structure[k].depth = scan_stats.max_depth

\* C13: own-level connector. For every entry of depth d >= 1, the token at
\* its own level is the corner exactly when no later entry of the same depth
\* comes before a shallower one, and the branch otherwise.
C13_OwnConnector ==
  pc = "exported" =>
    \A k \in 1..Len(structure) :
      structure[k].depth >= 1 =>
        OwnToken(TextLines[k], structure[k].depth) =
          IF LastSibling(structure, k) THEN CornerToken ELSE TeeToken

\* An entry that gets the corner although a later entry has its depth: a
\* shallower entry lies between them.
C13_Witness ==
  /\ pc = "exported"
  /\ \E k \in 1..Len(structure), j \in 1..Len(structure) :
       /\ k < j
       /\ structure[k].depth >= 1
       /\ structure[j].depth = structure[k].depth
       /\ LastSibling(structure, k)

\* Whether, scanning forward from entry k, an entry of depth L + 1 occurs
\* before any entry of depth <= L.
MoreAtLevel(S, k, L) ==
  \E j \in (k + 1)..Len(S) :
    /\ S[j].depth = L + 1
    /\ \A m \in (k + 1)..(j - 1) : S[m].depth > L

\* C14: ancestor-level connector and prefix length. The line of an entry of
\* depth d is a prefix of exactly 4 * d characters followed by icon, space and
\* name, and the token of each ancestor level L < d - 1 is the vertical bar
\* exactly when an entry of depth L + 1 occurs later before any entry of depth
\* <= L, four spaces otherwise.
C14_AncestorConnector ==
  pc = "exported" =>
    \A k \in 1..Len(structure) :
      LET d == structure[k].depth
          line == TextLines[k]
      IN /\ Len(line) = 4 * d + Len(BareLine(structure, k))
         /\ SubSeq(line, 4 * d + 1, Len(line)) = BareLine(structure, k)
         /\ \A L \in 0..(d - 2) :
              SubSeq(line, 4 * L + 1, 4 * L + 4) =
                IF MoreAtLevel(structure, k, L) THEN BarToken ELSE BlankToken

\* An entry two levels deep with a later entry of depth 1 and none shallower
\* before it, and after it an entry two levels deep with nothing behind it.
C14_Witness ==
  /\ pc = "exported"
  /\ Len(structure) = 3
  /\ structure[1].depth = 2
  /\ structure[2].depth = 1
  /\ structure[3].depth = 2

\* The number of whitespace characters a line starts with.
LeadingBlanks(line) ==
  Cardinality({i \in 1..Len(line) : \A j \in 1..i : line[j] \in Whitespace})

\* The line without the whitespace at its two ends.
Trimmed(line) ==
  LET inner == {i \in 1..Len(line) : line[i] \notin Whitespace}
  IN IF inner = {} THEN <<>>
     ELSE SubSeq(line, CHOOSE i \in inner : \A j \in inner : i <= j,
                       CHOOSE i \in inner : \A j \in inner : j <= i)

\* Whether some character of the line is in the set.
HasGlyph(line, glyphs) == \E i \in 1..Len(line) : line[i] \in glyphs

VBars(line) == Cardinality({i \in 1..Len(line) : line[i] = VBAR})

\* What a claim about the dialects says of the parsed line, the connector
\* dialect being chosen by the glyphs given: in it the depth of the entry is
\* the number of vertical bars; in the other an entry is returned unless the
\* line is blank, its depth is the leading whitespace divided by 4 and its
\* name the trimmed line.
DialectRule(glyphs) ==
  pc = "line_parsed" =>
    IF HasGlyph(text, glyphs)
    THEN ~line_out.none => line_out.depth = VBars(text)
    ELSE /\ line_out.none <=> Trimmed(text) = <<>>
         /\ ~line_out.none =>
              /\ line_out.depth = LeadingBlanks(text) \div 4
              /\ line_out.name = Trimmed(text)

\* C15 as the spec states it: the connector dialect is chosen exactly by a
\* vertical bar, branch or corner; a line whose only box-drawing character is
\* a horizontal dash is parsed in the indentation dialect.
C15_DialectByThree == DialectRule({VBAR, TEE, CORNER})

\* C15, amended: a line is parsed in the connector dialect exactly when it
\* holds a vertical bar, branch, corner or horizontal dash, and then the depth
\* of its entry is the number of vertical bars in the line; every other line
\* is parsed in the indentation dialect, with depth = leading whitespace
\* characters divided by 4 and name = the trimmed line.
C15_DialectByFour == DialectRule({VBAR, TEE, CORNER, DASH})

\* One indented line one level deep, and a line with a branch connector
\* behind a vertical bar.
C15_Witness ==
  /\ pc = "line_parsed"
  /\ ~line_out.none
  /\ line_out.depth = 1
  /\ \/ text = <<SP, SP, SP, SP, "a">>
     \/ text = <<VBAR, TEE, DASH, DASH, "a">>

\* What holds of the resolver's stack on every input: the stack cut for an
\* entry of depth d has at most d names, every name on it was pushed by a
\* folder entry, and the path of the entry is the join of the names on the cut
\* stack and its own name: at most d + 1 names.
StackCutAndFolders ==
  \A k \in 1..Len(structure) :
    LET cut == CutStack(structure, k)
    IN /\ Len(cut) <= structure[k].depth
       /\ \A i \in 1..Len(cut) : ~structure[cut[i]].is_file
       /\ paths[k].path = FullPath(StackNames(structure, cut), structure[k].name)

\* After a return to a shallower depth d, no name joined into the path comes
\* from an earlier entry of depth >= d.
NoDeeperNameAfterReturn ==
  \A k \in 2..Len(structure) :
    structure[k - 1].depth > structure[k].depth =>
      \A i \in 1..Len(CutStack(structure, k)) :
        structure[CutStack(structure, k)[i]].depth < structure[k].depth

\* The spec's example with the names of the model: [(a,0,folder),
\* (a,1,folder), (a,0,folder)] resolves to [a, a/a, a].
ReturnExample ==
  structure = <<Entry(<<"a">>, 0, FALSE), Entry(<<"a">>, 1, FALSE), Entry(<<"a">>, 0, FALSE)>>
    => paths = << [path |-> <<"a">>, is_file |-> FALSE],
                  [path |-> <<"a", SLASH, "a">>, is_file |-> FALSE],
                  [path |-> <<"a">>, is_file |-> FALSE] >>

\* C16 as the spec states it: for every entry sequence, the stack is cut to at
\* most d names and holds folder names only, every path joins at most d + 1
\* names and, after a return to a shallower depth d, none of them is the name
\* of an earlier entry of depth >= d.
C16_TruncationAlways ==
  pc = "resolved" =>
    StackCutAndFolders /\ NoDeeperNameAfterReturn /\ ReturnExample

\* C16, amended: for every entry sequence, the stack is cut to at most d names
\* and holds folder names only and every path joins at most d + 1 names; for
\* a sequence that satisfies the pre-order invariant and in which every entry
\* with a deeper successor is a folder, after a return to a shallower depth d
\* no name joined into the path comes from an earlier entry of depth >= d.
C16_TruncationPreOrder ==
  pc = "resolved" =>
    /\ StackCutAndFolders
    /\ (PreOrder(structure) /\ ParentsAreFolders(structure)) => NoDeeperNameAfterReturn
    /\ ReturnExample

\* The example has been resolved.
C16_Witness ==
  /\ pc = "resolved"
  /\ structure = <<Entry(<<"a">>, 0, FALSE), Entry(<<"a">>, 1, FALSE), Entry(<<"a">>, 0, FALSE)>>
  /\ Len(paths) = 3

\* C17: remove with an index in 0..len-1 deletes the entry at that index and
\* no other: the entries before it stay where they are, those after it move
\* up by one with name, depth and flag as they were, so that the entries below
\* a removed folder stay at their depths; the cursor depth is unchanged.
C17_RemoveInRange ==
  [][ (last'.op = "remove" /\ 0 <= last'.num /\ last'.num < Len(structure)) =>
        /\ last'.ret
        /\ Len(structure') = Len(structure) - 1
        /\ \A j \in 1..last'.num : structure'[j] = structure[j]
        /\ \A j \in (last'.num + 2)..Len(structure) : structure'[j - 1] = structure[j]
        /\ current_depth' = current_depth
    ]_vars

\* Entry 0 was removed and what is left is an entry one level deep: the
\* removed entry's child.
C17_Witness ==
  /\ last.op = "remove"
  /\ last.num = 0
  /\ last.ret
  /\ Len(structure) = 1
  /\ structure[1].depth = 1

\* C18: resolve on malformed input. For every entry sequence with
\* non-negative depths, the sequences that break the pre-order invariant
\* included, the result has one pair per entry, in the order of the entries:
\* each flag is the entry's and each path ends in the entry's name.
C18_ResolveTotal ==
  pc = "resolved" =>
    /\ Len(paths) = Len(structure)
    /\ \A k \in 1..Len(structure) :
         /\ paths[k].is_file = structure[k].is_file
         /\ Len(paths[k].path) >= Len(structure[k].name)
         /\ SubSeq(paths[k].path,
                   Len(paths[k].path) - Len(structure[k].name) + 1,
                   Len(paths[k].path)) = structure[k].name

\* A sequence whose first entry is deeper than 0 and whose depths then jump
\* by more than 1 has been resolved.
C18_Witness ==
  /\ pc = "resolved"
  /\ Len(structure) >= 2
  /\ structure[1].depth > 0
  /\ \E k \in 2..Len(structure) : structure[k].depth > structure[k - 1].depth + 1
  /\ Len(paths) = Len(structure)

\* The cursor depth and the depth of every entry are natural numbers.
DepthsNonNegative ==
  /\ current_depth \in Nat
  /\ \A k \in 1..Len(structure) : structure[k].depth \in Nat

\* C19: depth invariant. In every state of an interactive session (add,
\* indent, outdent, depth <n>, remove, clear, paste, scan) the cursor depth and
\* the depth of every entry are non-negative integers; outdent at cursor depth
\* 0 and depth <n> with a negative n leave the cursor depth as it was.
C19_DepthInvariant ==
  /\ [](DepthsNonNegative)
  /\ [][ /\ (last'.op = "outdent" /\ current_depth = 0) => current_depth' = current_depth
         /\ (last'.op = "depth" /\ last'.num < 0) => current_depth' = current_depth
       ]_vars

\* Outdent was refused at depth 0 while a scanned tree with an entry one level
\* deep was held.
C19_Witness ==
  /\ last.op = "outdent"
  /\ ~last.ret
  /\ current_depth = 0
  /\ Len(structure) = 2
  /\ structure[2].depth = 1

\* C20: the writer is never invoked on an empty structure. In every step of
\* the mode loop that calls create_file_structure, whichever mode returned
\* "create" (interactive's done, paste mode, scan mode's copy option), the
\* entry sequence is not empty and both confirmation prompts were answered
\* yes; and a paste whose parse result is empty leaves the entry sequence as
\* it was.
C20_WriterGuarded ==
  [][ /\ (pc' = "writing" /\ pc # "writing") =>
           /\ structure' # <<>>
           /\ paths' = convert_to_file_paths(structure')
           /\ create_confirm'
           /\ final_confirm'
      /\ (last'.op = "paste" /\ ~last'.ret) => structure' = structure
    ]_vars

\* The writer has just been called on a structure that scan or paste mode,
\* entered from interactive mode, left.
C20_Witness ==
  /\ pc = "writing"
  /\ write_log = <<>>
  /\ caller = "direct"
  /\ mode_result = "create"
  /\ structure # <<>>

\* C21: mode transition. Whenever a mode returns "scan_mode" (the scan
\* command of interactive mode, or the option 'Scan different directory' after
\* a scan), the next mode the main loop enters is scan mode, however many
\* times in a row the option is chosen: the loop does not go back to the menu.
C21_ScanModeEntered ==
  [][ ( \/ last'.op = "scan_mode"
        \/ (last'.op = "scan_option" /\ last'.arg = <<"4">>) ) =>
        (mode_result' = "scan_mode" /\ pc' = "scan_mode")
    ]_vars

====
